---- MODULE Spec2Model ----
(***************************************************************************)
(* Model of the clinic appointment backend (src/app.py, src/database.py):  *)
(* the appointments table, the four Flask route handlers and the two       *)
(* storage helpers.  Spec handles requests of every route one after the    *)
(* other; SpecConc interleaves the steps of concurrent booking requests.   *)
(***************************************************************************)
EXTENDS Integers, Sequences, FiniteSets, TLC

\* ------------------------------------------------------------------ bounds
MaxRows == 2
MaxTime == 2
TicksPerDay == 2
MaxLimit == 1

\* --------------------------------------------------------------- constants
DefaultLimit == 50
Handlers == {"h1", "h2"}
MailKeys == {"MAIL_USERNAME", "MAIL_PASSWORD", "MAIL_DEFAULT_SENDER"}

\* JSON values a payload field can take: absent/null, the empty string, a
\* non-empty string, and a JSON object (which sqlite3 cannot bind).
NoneVal == "<None>"
ObjectVal == "<dict>"
NameVals == {NoneVal, "", "Asha", ObjectVal}
PhoneVals == {NoneVal, "", "9990001111"}
EmailVals == {NoneVal, "asha@example.org"}
ServiceVals == {NoneVal}
MessageVals == {NoneVal}
StatusArgs == {"all", "pending", "confirmed"}
LimitArgs == {[numeric |-> TRUE, n |-> k] : k \in (-1 .. MaxLimit) \cup {DefaultLimit}}
             \cup {[numeric |-> FALSE, n |-> 0]}

ValidationMsg == "Name and phone number are required."
SaveFailedMsg == "Failed to save appointment. Please try again or call us directly."
GenericErrorMsg == "An error occurred while processing your request. Please call us at +91 79807 17479."
CallHint == " Please call us directly at +91 79807 17479 if you need urgent appointment."
ListErrorMsg == "Error fetching appointments"
ServiceName == "Chember Ortho and Pain Rehab Clinic API"

VARIABLES
    rows,        \* the appointments table, in insertion order
    seq,         \* sqlite_sequence entry of the table (AUTOINCREMENT)
    now,         \* the store's clock, in ticks
    config,      \* app.config mail settings
    pc,          \* position of each request handler
    req,         \* the request a handler is serving
    appointment_id, \* local of book_appointment
    email_sent,  \* local of book_appointment
    resp,        \* the response a handler returned last
    open,        \* connections a handler opened and has not closed
    obs,         \* per-handler record of what the handler did (history)
    returned     \* appointment ids carried by success responses, in order

vars == <<rows, seq, now, config, pc, req, appointment_id, email_sent, resp,
          open, obs, returned>>

NoReq == [route |-> "none"]
NoResp == [kind |-> "none"]
NoObs == [inserted |-> 0, attempts |-> <<>>, rowsSeen |-> 0, queryTime |-> 0,
          queryFailed |-> FALSE]

\* ---------------------------------------------------------------- helpers
Max(a, b) == IF a >= b THEN a ELSE b
Min(a, b) == IF a <= b THEN a ELSE b

RECURSIVE SeqMax(_)
SeqMax(s) == IF s = <<>> THEN 0 ELSE Max(Head(s), SeqMax(Tail(s)))

\* variant: only a missing field counts as not given
TruthyNoneOnly(v) == v # NoneVal

\* Python truthiness of a payload field (`not name`)
Truthy(v) == v \notin {NoneVal, ""}

\* sqlite3 parameter binding: str and None bind, a dict raises
Bindable(v) == v # ObjectVal

\* DATE(created_at), DATE('now'): the calendar day of a tick
Date(t) == t \div TicksPerDay

\* variant: any() in place of all()
is_gmail_configured_any == \E k \in MailKeys : config[k] # ""

is_gmail_configured == \A k \in MailKeys : config[k] # ""

\* variant: the rowid is not advanced past the largest one in use
NextRowIdStuck == Max(Max(seq, SeqMax([i \in 1 .. Len(rows) |-> rows[i].id])), 1)

\* the row an INSERT of (name, phone, email) creates: id from AUTOINCREMENT,
\* status, created_at, contacted from the column defaults
NextRowId == Max(seq, SeqMax([i \in 1 .. Len(rows) |-> rows[i].id])) + 1

\* variant: the id column is filled from the sequence without advancing it
NewRowSameId(a) == [id |-> Max(seq, 1), name |-> a.name, phone |-> a.phone,
                    email |-> a.email, service |-> a.service,
                    message |-> a.message, status |-> "pending",
                    created_at |-> now, contacted |-> FALSE,
                    contact_notes |-> NoneVal]

NewRow(a) == [id |-> NextRowId, name |-> a.name, phone |-> a.phone,
              email |-> a.email, service |-> a.service, message |-> a.message,
              status |-> "pending", created_at |-> now, contacted |-> FALSE,
              contact_notes |-> NoneVal]

\* variant: the WHERE clause is missing
CountAll(s) == Len(s)

\* SELECT COUNT(*) ... WHERE DATE(created_at) = DATE('now')
RECURSIVE CountWhereToday(_)
CountWhereToday(s) ==
    IF s = <<>> THEN 0
    ELSE (IF Date(Head(s).created_at) = Date(now) THEN 1 ELSE 0)
         + CountWhereToday(Tail(s))

\* WHERE status = ?   (no WHERE clause when the filter is 'all')
RECURSIVE SelectWhere(_, _)
SelectWhere(s, status) ==
    IF s = <<>> THEN <<>>
    ELSE IF status = "all" \/ Head(s).status = status
         THEN <<Head(s)>> \o SelectWhere(Tail(s), status)
         ELSE SelectWhere(Tail(s), status)

\* variant: ORDER BY created_at ASC
BeforeAsc(a, b, tie) ==
    \/ a.created_at < b.created_at
    \/ /\ a.created_at = b.created_at
       /\ IF tie = "asc" THEN a.id < b.id ELSE a.id > b.id

\* ORDER BY created_at DESC; the order of rows with equal created_at is not
\* specified by SQL: `tie` picks rowid ascending or descending among them
Before(a, b, tie) ==
    \/ a.created_at > b.created_at
    \/ /\ a.created_at = b.created_at
       /\ IF tie = "asc" THEN a.id < b.id ELSE a.id > b.id

RECURSIVE InsertSorted(_, _, _)
InsertSorted(r, s, tie) ==
    IF s = <<>> THEN <<r>>
    ELSE IF Before(r, Head(s), tie) THEN <<r>> \o s
         ELSE <<Head(s)>> \o InsertSorted(r, Tail(s), tie)

RECURSIVE OrderByCreatedDesc(_, _)
OrderByCreatedDesc(s, tie) ==
    IF s = <<>> THEN <<>>
    ELSE InsertSorted(Head(s), OrderByCreatedDesc(Tail(s), tie), tie)

\* LIMIT ?   (a negative limit means no limit in SQLite)
Limit(s, n) == IF n < 0 THEN s ELSE SubSeq(s, 1, Min(n, Len(s)))

SuccessMsg(id) ==
    "Appointment request received successfully (Reference #: " \o ToString(id)
    \o "). We will contact you shortly."

\* response_message of book_appointment
ResponseMessage(id, sent) ==
    IF sent THEN SuccessMsg(id) ELSE SuccessMsg(id) \o CallHint

\* variant: the outer handler answers with the message only
GenericFailureBare == [kind |-> "json", message |-> GenericErrorMsg]

\* the JSON bodies the handlers return on their failure paths
ValidationFailure == [kind |-> "json", success |-> FALSE, message |-> ValidationMsg]
SaveFailure == [kind |-> "json", success |-> FALSE, message |-> SaveFailedMsg]
GenericFailure == [kind |-> "json", success |-> FALSE, message |-> GenericErrorMsg]
ListFailure == [kind |-> "json", success |-> FALSE, message |-> ListErrorMsg]

\* variant: the result of the save is not tested
SaveNeverFailed(id) == FALSE

\* `if not appointment_id`: None (the insert raised) and 0 are falsy
SaveFailed(id) == id = 0

\* where book_appointment goes after save_appointment_to_db returned id
AfterSave(id) == IF SaveFailed(id) THEN "done" ELSE "notify"

\* variant: the id is read from the table when the response is built
ResponseIdLatest(h) == seq

\* the appointment_id the success response carries
ResponseId(h) == appointment_id[h]

\* a connection that was opened and never closed stays open unless the
\* runtime has already finalised the unreferenced object
Leak(h, finalised) == IF finalised THEN open[h] ELSE open[h] + 1

\* ------------------------------------------------------------------- Init
Init ==
    /\ rows = <<>>
    /\ seq = 0
    /\ now = 0
    /\ config \in [MailKeys -> {"", "set"}]
    /\ pc = [h \in Handlers |-> "idle"]
    /\ req = [h \in Handlers |-> NoReq]
    /\ appointment_id = [h \in Handlers |-> 0]
    /\ email_sent = [h \in Handlers |-> FALSE]
    /\ resp = [h \in Handlers |-> NoResp]
    /\ open = [h \in Handlers |-> 0]
    /\ obs = [h \in Handlers |-> NoObs]
    /\ returned = <<>>

\* a handler whose response is built hands it over before anything else runs
Quiet == \A h \in Handlers : pc[h] # "done"

\* the clock of the store advances
Tick ==
    /\ Quiet
    /\ now < MaxTime
    /\ now' = now + 1
    /\ UNCHANGED <<rows, seq, config, pc, req, appointment_id, email_sent,
                   resp, open, obs, returned>>

\* the handler returns: the response goes to the client, the locals die
Return(h) ==
    /\ pc[h] = "done"
    /\ pc' = [pc EXCEPT ![h] = "idle"]
    /\ req' = [req EXCEPT ![h] = NoReq]
    /\ resp' = [resp EXCEPT ![h] = NoResp]
    /\ open' = [open EXCEPT ![h] = 0]
    /\ obs' = [obs EXCEPT ![h] = NoObs]
    /\ appointment_id' = [appointment_id EXCEPT ![h] = 0]
    /\ email_sent' = [email_sent EXCEPT ![h] = FALSE]
    /\ UNCHANGED <<rows, seq, now, config, returned>>

\* GET /
index(h) ==
    /\ pc[h] = "idle"
    /\ req' = [req EXCEPT ![h] = [route |-> "index"]]
    /\ resp' = [resp EXCEPT ![h] = [kind |-> "html"]]
    /\ pc' = [pc EXCEPT ![h] = "done"]
    /\ UNCHANGED <<rows, seq, now, config, appointment_id, email_sent, open,
                   obs, returned>>

\* POST /book-appointment, up to the validation: a body that is not a JSON
\* object makes data.get raise, which the outer handler turns into the
\* generic error; a falsy name or phone returns the validation message
book_appointment(h, body) ==
    /\ pc[h] = "idle"
    /\ req' = [req EXCEPT ![h] = body]
    /\ IF ~body.object
       THEN /\ resp' = [resp EXCEPT ![h] = GenericFailure]
            /\ pc' = [pc EXCEPT ![h] = "done"]
       ELSE IF ~Truthy(body.name) \/ ~Truthy(body.phone)
       THEN /\ resp' = [resp EXCEPT ![h] = ValidationFailure]
            /\ pc' = [pc EXCEPT ![h] = "done"]
       ELSE /\ resp' = resp
            /\ pc' = [pc EXCEPT ![h] = "save"]
    /\ UNCHANGED <<rows, seq, now, config, appointment_id, email_sent, open,
                   obs, returned>>

\* the request bodies tried: every combination of name and phone, an email
\* only next to a name and a phone that pass the validation, and a body that
\* is not a JSON object
BookingBodies ==
    {b \in [route : {"book"}, object : {TRUE}, name : NameVals,
            phone : PhoneVals, email : EmailVals, service : ServiceVals,
            message : MessageVals] :
        Truthy(b.email) => (b.name = "Asha" /\ Truthy(b.phone))}
    \cup {[route |-> "book", object |-> FALSE, name |-> NoneVal,
           phone |-> NoneVal, email |-> NoneVal, service |-> NoneVal,
           message |-> NoneVal]}

\* save_appointment_to_db and the test of its result in book_appointment.
\* outcome: where the storage call raises, if it does; the function then
\* returns None without reaching conn.close()
save_appointment_to_db(h, outcome, finalised) ==
    /\ pc[h] = "save"
    /\ outcome = "ok" => Bindable(req[h].name) /\ Len(rows) < MaxRows
    /\ LET id == IF outcome = "ok" THEN NextRowId ELSE 0
       IN  /\ IF outcome = "ok"
              THEN /\ rows' = Append(rows, NewRow(req[h]))
                   /\ seq' = NextRowId
                   /\ obs' = [obs EXCEPT ![h].inserted = NextRowId]
                   /\ open' = open
              ELSE /\ open' = [open EXCEPT ![h] =
                          IF outcome = "connect" THEN open[h]
                          ELSE Leak(h, finalised)]
                   /\ UNCHANGED <<rows, seq, obs>>
           /\ appointment_id' = [appointment_id EXCEPT ![h] = id]
           /\ pc' = [pc EXCEPT ![h] = AfterSave(id)]
           /\ resp' = [resp EXCEPT ![h] =
                  IF SaveFailed(id) THEN SaveFailure ELSE resp[h]]
    /\ UNCHANGED <<now, config, req, email_sent, returned>>

\* the notification block of book_appointment: the clinic notice, then the
\* patient confirmation when an email was given; clinicOk, patientOk: whether
\* the transport delivers
send_notification(h, clinicOk, patientOk) ==
    /\ pc[h] = "notify"
    /\ IF is_gmail_configured
       THEN IF clinicOk
            THEN /\ email_sent' = [email_sent EXCEPT ![h] = TRUE]
                 /\ obs' = [obs EXCEPT ![h].attempts =
                        IF Truthy(req[h].email)
                        THEN <<[kind |-> "clinic", ok |-> TRUE],
                               [kind |-> "patient", ok |-> patientOk]>>
                        ELSE <<[kind |-> "clinic", ok |-> TRUE]>>]
            ELSE /\ email_sent' = [email_sent EXCEPT ![h] = FALSE]
                 /\ obs' = [obs EXCEPT ![h].attempts =
                        <<[kind |-> "clinic", ok |-> FALSE]>>]
       ELSE UNCHANGED <<email_sent, obs>>
    /\ pc' = [pc EXCEPT ![h] = "count"]
    /\ UNCHANGED <<rows, seq, now, config, req, appointment_id, resp, open,
                   returned>>

\* get_appointment_count_today, as a value: 0 when the query raised
get_appointment_count_today(outcome) ==
    IF outcome = "ok" THEN CountWhereToday(rows) ELSE 0

\* the tail of book_appointment: today's count and the success response
respond_booking(h, outcome, finalised) ==
    /\ pc[h] = "count"
    /\ LET today_count == get_appointment_count_today(outcome)
       IN  /\ resp' = [resp EXCEPT ![h] =
                  [kind |-> "json", success |-> TRUE,
                   message |-> ResponseMessage(ResponseId(h), email_sent[h]),
                   appointment_id |-> ResponseId(h),
                   today_count |-> today_count]]
           /\ returned' = Append(returned, ResponseId(h))
    /\ open' = [open EXCEPT ![h] =
           IF outcome = "execute" THEN Leak(h, finalised) ELSE open[h]]
    /\ obs' = [obs EXCEPT ![h].rowsSeen = Len(rows), ![h].queryTime = now,
                          ![h].queryFailed = (outcome # "ok")]
    /\ pc' = [pc EXCEPT ![h] = "done"]
    /\ UNCHANGED <<rows, seq, now, config, req, appointment_id, email_sent>>

\* GET /appointments; a limit that is not an integer makes the query raise
get_appointments(h, status, limit, outcome, tie, finalised) ==
    /\ pc[h] = "idle"
    /\ outcome = "ok" => limit.numeric
    /\ req' = [req EXCEPT ![h] =
           [route |-> "appointments", status |-> status, limit |-> limit]]
    /\ IF outcome = "ok"
       THEN /\ resp' = [resp EXCEPT ![h] =
                  LET appointments_list ==
                          Limit(OrderByCreatedDesc(SelectWhere(rows, status), tie),
                                limit.n)
                  IN  [kind |-> "json", success |-> TRUE,
                       count |-> Len(appointments_list),
                       appointments |-> appointments_list]]
            /\ open' = open
       ELSE /\ resp' = [resp EXCEPT ![h] = ListFailure]
            /\ open' = [open EXCEPT ![h] =
                  IF outcome = "connect" THEN open[h] ELSE Leak(h, finalised)]
    /\ obs' = [obs EXCEPT ![h].rowsSeen = Len(rows),
                          ![h].queryFailed = (outcome # "ok")]
    /\ pc' = [pc EXCEPT ![h] = "done"]
    /\ UNCHANGED <<rows, seq, now, config, appointment_id, email_sent, returned>>

\* GET /health
health_check(h, outcome, finalised) ==
    /\ pc[h] = "idle"
    /\ req' = [req EXCEPT ![h] = [route |-> "health"]]
    /\ resp' = [resp EXCEPT ![h] =
           [kind |-> "json", status |-> "healthy", timestamp |-> now,
            email_configured |-> is_gmail_configured,
            database_healthy |-> (outcome = "ok"),
            service |-> ServiceName]]
    /\ open' = [open EXCEPT ![h] =
           IF outcome = "execute" THEN Leak(h, finalised) ELSE open[h]]
    /\ obs' = [obs EXCEPT ![h].queryFailed = (outcome # "ok")]
    /\ pc' = [pc EXCEPT ![h] = "done"]
    /\ UNCHANGED <<rows, seq, now, config, appointment_id, email_sent, returned>>

WriteOutcomes == {"ok", "connect", "execute", "commit"}
ReadOutcomes == {"ok", "connect", "execute"}

\* whether the runtime finalised a leaked connection is a question only
\* where one was leaked
Leaks(o, f) == f => o \in {"execute", "commit"}

\* the steps of one handler
Index(h) == Quiet /\ index(h)
Book(h) == Quiet /\ \E body \in BookingBodies : book_appointment(h, body)
Save(h) == Quiet /\ \E o \in WriteOutcomes, f \in BOOLEAN :
               Leaks(o, f) /\ save_appointment_to_db(h, o, f)
Notify(h) == Quiet /\ \E c \in BOOLEAN, p \in BOOLEAN : send_notification(h, c, p)
Respond(h) == Quiet /\ \E o \in ReadOutcomes, f \in BOOLEAN :
                  Leaks(o, f) /\ respond_booking(h, o, f)
List(h) == Quiet /\ \E s \in StatusArgs, l \in LimitArgs, o \in ReadOutcomes,
              t \in {"asc", "desc"}, f \in BOOLEAN :
               Leaks(o, f) /\ get_appointments(h, s, l, o, t, f)
Health(h) == Quiet /\ \E o \in ReadOutcomes, f \in BOOLEAN :
                 Leaks(o, f) /\ health_check(h, o, f)

\* requests of every route, handled one after the other
Next ==
    \/ Tick
    \/ List("h1")
    \/ Health("h1")
    \/ Book("h1")
    \/ Save("h1")
    \/ Notify("h1")
    \/ Respond("h1")
    \/ Index("h1")
    \/ Return("h1")

Spec == Init /\ [][Next]_vars

\* booking requests handled concurrently
NextConc ==
    \/ Tick
    \/ \E h \in Handlers : Book(h)
    \/ \E h \in Handlers : Save(h)
    \/ \E h \in Handlers : Notify(h)
    \/ \E h \in Handlers : Respond(h)
    \/ \E h \in Handlers : Return(h)

SpecConc == Init /\ [][NextConc]_vars

\* ----------------------------------------------------------------- claims
Done(h) == pc[h] = "done"
Absent(v) == v = NoneVal \/ v = ""
MissingField(b) == b.route = "book" /\ b.object /\ (Absent(b.name) \/ Absent(b.phone))
ValidBody(b) == b.route = "book" /\ b.object /\ ~Absent(b.name) /\ ~Absent(b.phone)
HasSuccess(r) == r.kind = "json" /\ "success" \in DOMAIN r /\ r.success \in BOOLEAN
StrictlyIncreasing(s) == \A i, j \in 1 .. Len(s) : i < j => s[i] < s[j]
HintText == " Please call us directly at +91 79807 17479 if you need urgent appointment."

\* C1: a booking payload whose name or phone is absent or empty is answered,
\* in the step that receives it, with success=false and exactly the message
\* "Name and phone number are required."; that step leaves the table as it
\* was, inserts nothing and attempts no notification.
C1_ValidationRejects ==
    [][\A h \in Handlers :
          (pc[h] = "idle" /\ pc'[h] # "idle" /\ MissingField(req'[h]))
          => /\ pc'[h] = "done"
             /\ resp'[h] = [kind |-> "json", success |-> FALSE,
                            message |-> "Name and phone number are required."]
             /\ rows' = rows
             /\ obs'[h].inserted = 0
             /\ obs'[h].attempts = <<>>]_vars

C1_Witness ==
    \E h \in Handlers :
        /\ Done(h) /\ MissingField(req[h]) /\ req[h].name = "Asha"
        /\ resp[h].message = ValidationMsg
        /\ Len(rows) > 0

\* C2 as stated: every valid payload is answered with success=true, and the
\* ids of sequential success responses are strictly increasing.
C2_AlwaysSucceeds ==
    /\ \A h \in Handlers :
           (Done(h) /\ ValidBody(req[h])) => resp[h].success = TRUE
    /\ StrictlyIncreasing(returned)

\* C2 amended: a valid payload is answered with success=true and the id of
\* the inserted row unless the insert fails, and then with success=false and
\* the "Failed to save appointment" message; the ids of sequential success
\* responses are strictly increasing.
C2_SucceedsUnlessInsertFails ==
    /\ \A h \in Handlers :
           (Done(h) /\ ValidBody(req[h])) =>
               IF obs[h].inserted # 0
               THEN /\ resp[h].success = TRUE
                    /\ resp[h].appointment_id = obs[h].inserted
               ELSE /\ resp[h].success = FALSE
                    /\ resp[h].message =
                         "Failed to save appointment. Please try again or call us directly."
    /\ StrictlyIncreasing(returned)

C2_Witness ==
    \E h \in Handlers :
        /\ Done(h) /\ ValidBody(req[h]) /\ resp[h].success
        /\ Len(returned) >= 2
        /\ resp[h].appointment_id = returned[Len(returned)]

\* C3: no handler has returned while a connection it opened is still open.
C3_ConnectionsReleased ==
    \A h \in Handlers : Done(h) => open[h] = 0

\* C4 as stated: every response of every route handler is a JSON object with
\* a boolean field success.
C4_EveryResponseHasSuccess ==
    \A h \in Handlers : Done(h) => HasSuccess(resp[h])

\* C4 amended: every response of /book-appointment and of /appointments, on
\* every path, is a JSON object with a boolean field success; the response of
\* /health is a JSON object with exactly the fields status, timestamp,
\* email_configured, database_healthy and service, and / answers with a page.
C4_BookingAndListingHaveSuccess ==
    \A h \in Handlers :
        Done(h) =>
            /\ req[h].route \in {"book", "appointments"} => HasSuccess(resp[h])
            /\ req[h].route = "health" =>
                   /\ resp[h].kind = "json"
                   /\ DOMAIN resp[h] = {"kind", "status", "timestamp",
                          "email_configured", "database_healthy", "service"}
            /\ req[h].route = "index" => resp[h].kind = "html"

C4_Witness ==
    \E h \in Handlers :
        /\ Done(h) /\ req[h].route = "book" /\ ~req[h].object
        /\ resp[h].success = FALSE
        /\ resp[h].message = GenericErrorMsg

\* C5: when the insert of a validated booking fails, the response is
\* success=false with the "Failed to save appointment" message, carries
\* neither appointment_id nor today_count, and no notification was attempted.
C5_InsertFailure ==
    \A h \in Handlers :
        (Done(h) /\ ValidBody(req[h]) /\ obs[h].inserted = 0) =>
            /\ resp[h] = [kind |-> "json", success |-> FALSE, message |->
                 "Failed to save appointment. Please try again or call us directly."]
            /\ obs[h].attempts = <<>>

C5_Witness ==
    \E h \in Handlers :
        /\ Done(h) /\ ValidBody(req[h]) /\ obs[h].inserted = 0
        /\ req[h].name = "Asha"
        /\ is_gmail_configured

\* C6: once the insert has succeeded the response is success=true; the
\* manual-contact hint is in the message exactly when the clinic notice was
\* not sent; with a credential absent nothing is attempted and the hint is
\* there; a patient confirmation that fails after a delivered clinic notice
\* leaves the message without the hint.
C6_HintIffClinicNoticeNotSent ==
    \A h \in Handlers :
        (Done(h) /\ req[h].route = "book" /\ obs[h].inserted # 0) =>
            LET a == obs[h].attempts
                clinicSent == a # <<>> /\ a[1] = [kind |-> "clinic", ok |-> TRUE]
                plain == SuccessMsg(resp[h].appointment_id)
                credentials == /\ config["MAIL_USERNAME"] # ""
                               /\ config["MAIL_PASSWORD"] # ""
                               /\ config["MAIL_DEFAULT_SENDER"] # ""
            IN  /\ resp[h].success = TRUE
                /\ clinicSent => resp[h].message = plain
                /\ ~clinicSent => resp[h].message = plain \o HintText
                /\ ~credentials => a = <<>>
                /\ credentials => a # <<>>

C6_Witness ==
    \E h \in Handlers :
        /\ Done(h) /\ req[h].route = "book" /\ obs[h].inserted # 0
        /\ obs[h].attempts = <<[kind |-> "clinic", ok |-> TRUE],
                               [kind |-> "patient", ok |-> FALSE]>>
        /\ resp[h].message = SuccessMsg(resp[h].appointment_id)

\* the rows stored when handler h ran its query whose creation day is the
\* day of the query
RowsOfQueryDay(h) ==
    Cardinality({i \in 1 .. obs[h].rowsSeen :
        rows[i].created_at \div TicksPerDay = obs[h].queryTime \div TicksPerDay})

\* C7 as stated: the count a booking reports is always the number of stored
\* rows created on the current calendar day.
C7_CountIsTodaysRows ==
    \A h \in Handlers :
        (Done(h) /\ req[h].route = "book" /\ resp[h].success) =>
            resp[h].today_count = RowsOfQueryDay(h)

\* C7 amended: the count is the number of stored rows created on the current
\* calendar day when the query succeeds, and 0 when the query fails.
C7_CountIsTodaysRowsOrZero ==
    \A h \in Handlers :
        (Done(h) /\ req[h].route = "book" /\ resp[h].success) =>
            resp[h].today_count =
                IF obs[h].queryFailed THEN 0 ELSE RowsOfQueryDay(h)

C7_Witness ==
    \E h \in Handlers :
        /\ Done(h) /\ req[h].route = "book" /\ resp[h].success
        /\ ~obs[h].queryFailed
        /\ obs[h].rowsSeen = 2
        /\ rows[1].created_at \div TicksPerDay < obs[h].queryTime \div TicksPerDay
        /\ resp[h].today_count = 1

\* C8: rows are only ever added, and the identifier, creation timestamp and
\* status of a stored row never change; identifiers are pairwise distinct,
\* and every stored row has a non-empty name and phone and status "pending".
C8_RowsAppendOnly ==
    /\ [](\A i \in 1 .. Len(rows) :
             /\ ~Absent(rows[i].name)
             /\ ~Absent(rows[i].phone)
             /\ rows[i].status = "pending"
             /\ \A j \in 1 .. Len(rows) : i # j => rows[i].id # rows[j].id)
    /\ [][/\ Len(rows') >= Len(rows)
          /\ \A i \in 1 .. Len(rows) :
                /\ rows'[i].id = rows[i].id
                /\ rows'[i].created_at = rows[i].created_at
                /\ rows'[i].status = rows[i].status]_vars

C8_Witness ==
    /\ Len(rows) >= 2
    /\ rows[1].created_at < now
    /\ \E h \in Handlers : Done(h) /\ req[h].route = "appointments"

\* C9: a listing with a positive limit returns rows of the table, each once,
\* in descending creation-timestamp order, at most limit of them; every
\* returned row matches the status filter ("all" matches every row), and the
\* result is the limit newest matching rows: no matching row left out is
\* newer than a returned one.
C9_ListingNewestFirst ==
    \A h \in Handlers :
        (Done(h) /\ req[h].route = "appointments" /\ resp[h].success
                 /\ req[h].limit.n >= 1) =>
            LET res == resp[h].appointments
                matching == {i \in 1 .. Len(rows) :
                                req[h].status = "all" \/ rows[i].status = req[h].status}
                shown == {res[k].id : k \in 1 .. Len(res)}
            IN  /\ resp[h].count = Len(res)
                /\ Len(res) = Min(req[h].limit.n, Cardinality(matching))
                /\ \A k \in 1 .. Len(res) : \E i \in matching : res[k] = rows[i]
                /\ Cardinality(shown) = Len(res)
                /\ \A k, l \in 1 .. Len(res) :
                       k < l => res[k].created_at >= res[l].created_at
                /\ \A i \in matching : \A k \in 1 .. Len(res) :
                       rows[i].id \notin shown =>
                           res[k].created_at >= rows[i].created_at

C9_Witness ==
    \E h \in Handlers :
        /\ Done(h) /\ req[h].route = "appointments" /\ resp[h].success
        /\ req[h].status = "pending"
        /\ Len(rows) = 2 /\ rows[1].created_at < rows[2].created_at
        /\ req[h].limit.n = 1
        /\ resp[h].appointments = <<rows[2]>>

\* C10: with booking requests interleaved, no two success responses carry
\* the same appointment_id; the id of a success response is the id of the row
\* this request inserted, which holds this request's name, phone and email;
\* and when the count query did not fail and ran on the day of this request's
\* insert, today_count is at least 1 and at most the number of rows stored
\* when the count was taken.
C10_OwnIdAndBoundedCount ==
    /\ \A i, j \in 1 .. Len(returned) : i # j => returned[i] # returned[j]
    /\ \A h \in Handlers :
           (Done(h) /\ req[h].route = "book" /\ resp[h].success) =>
               /\ resp[h].appointment_id = obs[h].inserted
               /\ \E i \in 1 .. Len(rows) :
                      /\ rows[i].id = resp[h].appointment_id
                      /\ rows[i].name = req[h].name
                      /\ rows[i].phone = req[h].phone
                      /\ rows[i].email = req[h].email
                      /\ (/\ ~obs[h].queryFailed
                          /\ rows[i].created_at \div TicksPerDay
                               = obs[h].queryTime \div TicksPerDay)
                         => /\ resp[h].today_count >= 1
                            /\ resp[h].today_count <= obs[h].rowsSeen

C10_Witness ==
    \E h, g \in Handlers :
        /\ h # g
        /\ Done(h) /\ req[h].route = "book" /\ resp[h].success
        /\ resp[h].appointment_id = 1
        /\ resp[h].today_count = 2
        /\ pc[g] = "notify"
====
